---- MODULE Spec2Model ----
(***************************************************************************)
(* Model of send_briefing.py: the market risk classifier (market_brief),   *)
(* the exit signal engine (exit_signals), the entry planner                *)
(* (entry_plan_us), the candidate scorer and ranker (score_candidate,      *)
(* kr_reco_block) and the message splitter and sender (telegram_send).     *)
(*                                                                         *)
(* Python floats are modelled as exact rationals plus NaN: a number is a   *)
(* record [nan, n, d] with d > 0 and n/d in lowest terms.  Comparisons     *)
(* follow IEEE/Python: every ordered comparison with NaN is false, and     *)
(* x != x holds exactly for NaN.  Rounding error of binary floating point  *)
(* is not modelled.                                                        *)
(***************************************************************************)
EXTENDS Integers, Sequences, FiniteSets, TLC

VARIABLES pc, mb_in, mb_out, snap, ex_out, ex_prev, en_in, en_out,
          sc_in, sc_out, kr_in, kr_out, kr_prev, tg_text, tg_t, tg_parts, tg_sent

vars == <<pc, mb_in, mb_out, snap, ex_out, ex_prev, en_in, en_out,
          sc_in, sc_out, kr_in, kr_out, kr_prev, tg_text, tg_t, tg_parts, tg_sent>>

(***************************************************************************)
(* Numbers                                                                 *)
(***************************************************************************)
Abs(k) == IF k < 0 THEN -k ELSE k

RECURSIVE GCD(_, _)
GCD(a, b) == IF b = 0 THEN a ELSE GCD(b, a % b)

\* float("nan")
NaN == [nan |-> TRUE, n |-> 0, d |-> 1]

\* the rational n/d (d # 0), in lowest terms with a positive denominator
Q(n, d) ==
    LET g == GCD(Abs(n), Abs(d))
        s == IF d < 0 THEN -1 ELSE 1
    IN  [nan |-> FALSE, n |-> s * (n \div g), d |-> s * (d \div g)]

\* the integer k as a float
R(k) == [nan |-> FALSE, n |-> k, d |-> 1]

\* is_nan(x): x != x
is_nan(x) == x.nan

Add(x, y) == IF x.nan \/ y.nan THEN NaN ELSE Q(x.n * y.d + y.n * x.d, x.d * y.d)
Sub(x, y) == IF x.nan \/ y.nan THEN NaN ELSE Q(x.n * y.d - y.n * x.d, x.d * y.d)
Mul(x, y) == IF x.nan \/ y.nan THEN NaN ELSE Q(x.n * y.n, x.d * y.d)
\* x / y for y # 0 (a zero divisor raises ZeroDivisionError: see IsZero)
Div(x, y) == IF x.nan \/ y.nan THEN NaN ELSE Q(x.n * y.d, x.d * y.n)

\* y == 0 (false for NaN); y != 0 is ~IsZero(y) (true for NaN)
IsZero(y) == ~y.nan /\ y.n = 0

\* ordered comparisons: false as soon as one side is NaN
Ge(x, y) == ~x.nan /\ ~y.nan /\ x.n * y.d >= y.n * x.d
Le(x, y) == ~x.nan /\ ~y.nan /\ x.n * y.d <= y.n * x.d
Gt(x, y) == ~x.nan /\ ~y.nan /\ x.n * y.d > y.n * x.d
Lt(x, y) == ~x.nan /\ ~y.nan /\ x.n * y.d < y.n * x.d

\* (curr / prev - 1.0) * 100.0, for prev # 0
PctChange(curr, prev) == Mul(Sub(Div(curr, prev), R(1)), R(100))

(***************************************************************************)
(* Market risk classifier                                                  *)
(***************************************************************************)
Levels == {"good", "meh", "bad"}

\* the result of a call that returned None
None == [none |-> TRUE, foreign |-> NaN, inst |-> NaN]

\* {"foreign": f, "inst": i}
FlowDict(f, i) == [none |-> FALSE, foreign |-> f, inst |-> i]

\* get_index_return: h is what yf.Ticker(t).history(...).dropna() did,
\* [raises, closes]; every failure, a division by zero included, gives NaN
get_index_return(h) ==
    IF h.raises THEN NaN
    ELSE IF Len(h.closes) < 2 THEN NaN
    ELSE LET close == h.closes[Len(h.closes)]
             prev  == h.closes[Len(h.closes) - 1]
         IN  IF IsZero(prev) THEN NaN ELSE PctChange(close, prev)

\* market_flow_kospi: df is what get_market_trading_value_by_investor did,
\* [kind, foreign, inst] with kind one of raise, empty, by_row (investors are
\* the index, a net-buy column), by_col (investors are the columns, a net-buy
\* row) and unknown (neither layout)
market_flow_kospi(df) ==
    CASE df.kind = "raise" -> None
      [] df.kind = "empty" -> None
      [] df.kind = "by_row" ->
            IF ~is_nan(df.foreign) \/ ~is_nan(df.inst)
            THEN FlowDict(df.foreign, df.inst)
            ELSE None
      [] df.kind = "by_col" -> FlowDict(df.foreign, df.inst)
      [] OTHER -> None

\* the risk-hit counter with the flow condition firing as soon as either
\* net flow is negative
RiskHitsEitherFlow(kospi, kosdaq, vix, flow) ==
      (IF Le(kospi, Q(-15, 10)) THEN 1 ELSE 0)
    + (IF Le(kosdaq, Q(-18, 10)) THEN 1 ELSE 0)
    + (IF Ge(vix, R(6)) THEN 1 ELSE 0)
    + (IF ~flow.none /\ (Lt(flow.foreign, R(0)) \/ Lt(flow.inst, R(0)))
       THEN 1 ELSE 0)

\* lines 238-252: the risk-hit counter
RiskHits(kospi, kosdaq, vix, flow) ==
      (IF ~is_nan(kospi) /\ Le(kospi, Q(-15, 10)) THEN 1 ELSE 0)
    + (IF ~is_nan(kosdaq) /\ Le(kosdaq, Q(-18, 10)) THEN 1 ELSE 0)
    + (IF ~is_nan(vix) /\ Ge(vix, R(6)) THEN 1 ELSE 0)
    + (IF ~flow.none
          /\ ~is_nan(flow.foreign) /\ ~is_nan(flow.inst)
          /\ Lt(flow.foreign, R(0)) /\ Lt(flow.inst, R(0))
       THEN 1 ELSE 0)

\* lines 254-262: the level of a hit count
RiskLevel(risk_hits) ==
    IF risk_hits >= 2 THEN "bad"
    ELSE IF risk_hits = 1 THEN "meh"
    ELSE "good"

\* market_brief: i is [nasdaq, spx, kospi, kosdaq, vix, krx, flow], what each
\* lookup did.  nearest_krx_day has no handler of its own, so an error of
\* get_nearest_business_day_in_a_week leaves market_brief as an exception.
market_brief(i) ==
    LET kospi  == get_index_return(i.kospi)
        kosdaq == get_index_return(i.kosdaq)
        vix    == get_index_return(i.vix)
        flow   == market_flow_kospi(i.flow)
        hits   == RiskHits(kospi, kosdaq, vix, flow)
    IN  IF i.krx.raises
        THEN [raised |-> TRUE, level |-> "exception", risk_hits |-> 0,
              nasdaq |-> get_index_return(i.nasdaq),
              spx |-> get_index_return(i.spx),
              kospi |-> kospi, kosdaq |-> kosdaq, vix |-> vix, flow |-> None]
        ELSE [raised |-> FALSE, level |-> RiskLevel(hits), risk_hits |-> hits,
              nasdaq |-> get_index_return(i.nasdaq),
              spx |-> get_index_return(i.spx),
              kospi |-> kospi, kosdaq |-> kosdaq, vix |-> vix, flow |-> flow]

(***************************************************************************)
(* Exit signal engine                                                      *)
(***************************************************************************)
Stages == <<"none", "first", "second", "third">>

\* the stage with the third stage given to exactly three flags only
ExitStageExactlyThree(n, esc) ==
    IF n = 3 /\ esc THEN "third"
    ELSE IF n >= 3 THEN "second"
    ELSE IF n >= 2 THEN "first"
    ELSE "none"

\* lines 325-341: three ifs in a row, the last one satisfied wins
ExitStage(n, esc) ==
    IF n >= 3 /\ esc THEN "third"
    ELSE IF n >= 3 THEN "second"
    ELSE IF n >= 2 THEN "first"
    ELSE "none"

\* line 321-323 without the high_3m != 0 guard
NearHighNoZeroGuard(close, high_3m) ==
    ~is_nan(high_3m) /\ ~is_nan(close) /\ Ge(close, Mul(high_3m, Q(98, 100)))

\* lines 321-323: the near-3-month-high flag
NearHigh(close, high_3m) ==
    ~is_nan(high_3m) /\ ~is_nan(close) /\ ~IsZero(high_3m)
    /\ Ge(close, Mul(high_3m, Q(98, 100)))

\* lines 310-312 with a zero ma20 taken as a distance of 0
Dist20ZeroAsFlat(close, ma20) ==
    IF ~is_nan(ma20) /\ ~is_nan(close)
    THEN (IF IsZero(ma20) THEN R(0) ELSE PctChange(close, ma20))
    ELSE NaN

\* lines 310-312: dist20, NaN unless ma20 and close are numbers and ma20 # 0
Dist20(close, ma20) ==
    IF ~is_nan(ma20) /\ ~IsZero(ma20) /\ ~is_nan(close)
    THEN PctChange(close, ma20)
    ELSE NaN

\* lines 303-323: the flags of a snapshot [close, ma20, rsi, chg5d, high_3m]
ExitFlags(s) ==
    LET dist20 == Dist20(s.close, s.ma20)
    IN    (IF ~is_nan(s.rsi) /\ Ge(s.rsi, R(70)) THEN {"rsi"} ELSE {})
     \cup (IF ~is_nan(dist20) /\ Ge(dist20, R(6)) THEN {"dist20"} ELSE {})
     \cup (IF ~is_nan(s.chg5d) /\ Ge(s.chg5d, R(12)) THEN {"chg5d"} ELSE {})
     \cup (IF NearHigh(s.close, s.high_3m) THEN {"near_high"} ELSE {})

\* the escalation predicate with the exclusion threshold 12 in place of 9
EscalationDist12(s, flags, dist20) ==
    \/ (~is_nan(s.rsi) /\ Ge(s.rsi, R(80)))
    \/ (~is_nan(s.chg5d) /\ Ge(s.chg5d, R(15)))
    \/ ("near_high" \in flags /\ ~is_nan(dist20) /\ Ge(dist20, R(12)))

\* lines 335-339: the overheat escalation predicate
Escalation(s, flags, dist20) ==
    \/ (~is_nan(s.rsi) /\ Ge(s.rsi, R(80)))
    \/ (~is_nan(s.chg5d) /\ Ge(s.chg5d, R(15)))
    \/ ("near_high" \in flags /\ ~is_nan(dist20) /\ Ge(dist20, R(9)))

\* exit_signals(close, ma20, rsi_v, chg5d, high_3m): no operation on floats
\* raises, so it always returns
exit_signals(s) ==
    LET flags  == ExitFlags(s)
        dist20 == Dist20(s.close, s.ma20)
        n      == Cardinality(flags)
        esc    == Escalation(s, flags, dist20)
    IN  [stage |-> ExitStage(n, esc), flags |-> flags, n |-> n,
         esc |-> esc, dist20 |-> dist20]

(***************************************************************************)
(* Entry plan generator                                                    *)
(***************************************************************************)
\* entry_plan_us with the data check made before the market check
entry_plan_us_DataFirst(close, ma20, market_level) ==
    IF is_nan(close) \/ is_nan(ma20) \/ IsZero(ma20)
    THEN [plan |-> "insufficient", low |-> NaN, high |-> NaN]
    ELSE IF market_level = "bad"
    THEN [plan |-> "defer_bad", low |-> NaN, high |-> NaN]
    ELSE LET low  == Mul(ma20, Q(98, 100))
             high == Mul(ma20, Q(102, 100))
         IN  IF Gt(close, high) THEN [plan |-> "above", low |-> low, high |-> high]
             ELSE IF Lt(close, low) THEN [plan |-> "below", low |-> low, high |-> high]
             ELSE [plan |-> "inside", low |-> low, high |-> high]

\* entry_plan_us(close, ma20, market_level): which of the five texts is
\* returned, and the band it prints
entry_plan_us(close, ma20, market_level) ==
    IF market_level = "bad"
    THEN [plan |-> "defer_bad", low |-> NaN, high |-> NaN]
    ELSE IF is_nan(close) \/ is_nan(ma20) \/ IsZero(ma20)
    THEN [plan |-> "insufficient", low |-> NaN, high |-> NaN]
    ELSE LET low  == Mul(ma20, Q(98, 100))
             high == Mul(ma20, Q(102, 100))
         IN  IF Gt(close, high) THEN [plan |-> "above", low |-> low, high |-> high]
             ELSE IF Lt(close, low) THEN [plan |-> "below", low |-> low, high |-> high]
             ELSE [plan |-> "inside", low |-> low, high |-> high]

(***************************************************************************)
(* Candidate scorer and ranker                                             *)
(***************************************************************************)
\* the closes of the frame get_market_ohlcv_by_date returned (won, whole
\* numbers): df.len rows, all at df.base but the last one, at df.last
Closes(df) == [k \in 1..df.len |-> IF k = df.len THEN df.last ELSE df.base]

RECURSIVE SumFrom(_, _)
\* closes[k] + ... + closes[Len(closes)]
SumFrom(closes, k) ==
    IF k > Len(closes) THEN 0 ELSE closes[k] + SumFrom(closes, k + 1)

\* the mean of the rows there are when there are fewer than w
RollingMeanLastShortWindow(closes, w) ==
    IF Len(closes) = 0 THEN NaN
    ELSE IF Len(closes) < w THEN Q(SumFrom(closes, 1), Len(closes))
    ELSE Q(SumFrom(closes, Len(closes) - w + 1), w)

\* series.rolling(w).mean().iloc[-1]: NaN with fewer than w rows
RollingMeanLast(closes, w) ==
    IF Len(closes) < w THEN NaN ELSE Q(SumFrom(closes, Len(closes) - w + 1), w)

\* lines 591-593
CandDist20(close, ma20) ==
    IF ~is_nan(ma20) /\ ~IsZero(ma20) THEN PctChange(close, ma20) ELSE NaN

\* lines 595-598
CandMom5(closes) ==
    IF Len(closes) >= 6
    THEN LET c5 == R(closes[Len(closes) - 5])
         IN  IF ~is_nan(c5) /\ ~IsZero(c5)
             THEN PctChange(R(closes[Len(closes)]), c5)
             ELSE NaN
    ELSE NaN

\* the overheat exclusion without its momentum half
OverheatedDistOnly(dist20, mom5) ==
    ~is_nan(dist20) /\ Ge(dist20, R(12))

\* lines 600-604: the overheat exclusion
Overheated(dist20, mom5) ==
    \/ (~is_nan(dist20) /\ Ge(dist20, R(12)))
    \/ (~is_nan(mom5) /\ Ge(mom5, R(18)))

\* kr_fundamental: f is what get_market_fundamental_by_date did,
\* [kind, eps, per]; None unless it returned a row
kr_fundamental(f) ==
    IF f.kind = "row"
    THEN [none |-> FALSE, eps |-> f.eps, per |-> f.per]
    ELSE [none |-> TRUE, eps |-> NaN, per |-> NaN]

\* lines 606-612: no fundamentals, or eps undefined or not positive
NotProfitable(f) == f.none \/ is_nan(f.eps) \/ Le(f.eps, R(0))

\* kr_investor_flow_by_ticker: as market_flow_kospi, for one ticker
kr_investor_flow_by_ticker(df) ==
    CASE df.kind = "raise" -> None
      [] df.kind = "empty" -> None
      [] df.kind = "by_row" ->
            IF ~is_nan(df.foreign) \/ ~is_nan(df.inst)
            THEN FlowDict(df.foreign, df.inst)
            ELSE None
      [] df.kind = "by_col" -> FlowDict(df.foreign, df.inst)
      [] OTHER -> None

\* lines 614-620
FlowPenalty(flow) ==
    IF ~flow.none
       /\ ~is_nan(flow.foreign) /\ ~is_nan(flow.inst)
       /\ Lt(flow.foreign, R(0)) /\ Lt(flow.inst, R(0))
    THEN Q(-35, 10)
    ELSE R(0)

\* max(min(x, 6), -6)
Clamp6(x) == IF Lt(x, R(6)) THEN (IF Gt(x, R(-6)) THEN x ELSE R(-6)) ELSE R(6)

\* the score with dist20 weighed unclamped
ScoreNoClamp(mom5, dist20, per, flow_penalty) ==
    LET m == IF ~is_nan(mom5) THEN mom5 ELSE R(0)
        t == IF ~is_nan(dist20) THEN Mul(dist20, Q(7, 10)) ELSE R(0)
        v == IF ~is_nan(per) /\ Ge(per, R(60)) THEN R(-5)
             ELSE IF ~is_nan(per) /\ Ge(per, R(35)) THEN R(-2)
             ELSE R(0)
    IN  Add(Add(Add(m, t), v), flow_penalty)

\* lines 622-634
Score(mom5, dist20, per, flow_penalty) ==
    LET m == IF ~is_nan(mom5) THEN mom5 ELSE R(0)
        t == IF ~is_nan(dist20) THEN Mul(Clamp6(dist20), Q(7, 10)) ELSE R(0)
        v == IF ~is_nan(per) /\ Ge(per, R(60)) THEN R(-5)
             ELSE IF ~is_nan(per) /\ Ge(per, R(35)) THEN R(-2)
             ELSE R(0)
    IN  Add(Add(Add(m, t), v), flow_penalty)

\* what score_candidate returns for a dropped candidate
NoRecord ==
    [none |-> TRUE, code |-> 0, close |-> NaN, mom5 |-> NaN, dist20 |-> NaN,
     eps |-> NaN, per |-> NaN, score |-> NaN, ma20 |-> NaN, flow |-> None]

\* score_candidate(code, date): d is what the lookups for this code did,
\* [ohlcv, fund, flow]; ohlcv.kind is raise (a lookup raised), no_prev_days,
\* empty or rows
score_candidate(code, d) ==
    IF d.ohlcv.kind # "rows" \/ d.ohlcv.len < 10 THEN NoRecord
    ELSE
    LET closes == Closes(d.ohlcv)
        close  == R(closes[Len(closes)])
        ma20   == RollingMeanLast(closes, 20)
        dist20 == CandDist20(close, ma20)
        mom5   == CandMom5(closes)
        f      == kr_fundamental(d.fund)
        flow   == kr_investor_flow_by_ticker(d.flow)
    IN  IF Overheated(dist20, mom5) THEN NoRecord
        ELSE IF NotProfitable(f) THEN NoRecord
        ELSE [none |-> FALSE, code |-> code, close |-> close, mom5 |-> mom5,
              dist20 |-> dist20, eps |-> f.eps, per |-> f.per,
              score |-> Score(mom5, dist20, f.per, FlowPenalty(flow)),
              ma20 |-> ma20, flow |-> flow]

RECURSIVE ScoreAllStopAtFailure(_)
\* the loop given up at the first code score_candidate returns None for
ScoreAllStopAtFailure(rows) ==
    IF rows = <<>> THEN <<>>
    ELSE LET c == score_candidate(Head(rows).code, Head(rows).data)
         IN  IF c.none THEN <<>> ELSE <<c>> \o ScoreAllStopAtFailure(Tail(rows))

\* lines 665-669: the records of the universe's codes, in universe order
RECURSIVE ScoreAll(_)
ScoreAll(rows) ==
    IF rows = <<>> THEN <<>>
    ELSE LET c == score_candidate(Head(rows).code, Head(rows).data)
         IN  (IF c.none THEN <<>> ELSE <<c>>) \o ScoreAll(Tail(rows))

\* the candidates kr_reco_block sorts: none when it returns or raises before
RecoCandidates(i) ==
    IF i.krx.raises \/ i.risk_level = "bad" \/ i.uni.raises THEN <<>>
    ELSE ScoreAll(i.uni.rows)

RECURSIVE Orders(_)
\* the orders n rows can be put in: the permutations of 1..n
Orders(n) ==
    IF n = 0 THEN {<<>>}
    ELSE {[k \in 1..n |-> IF k < j THEN p[k] ELSE IF k = j THEN n ELSE p[k - 1]] :
            p \in Orders(n - 1), j \in 1..n}

\* line 677, sort_values("score", ascending=False) with the default sort
\* kind, which is not stable: every order of the rows in which the score
\* never increases is a possible result
SortOrders(cands) ==
    {p \in Orders(Len(cands)) :
        \A a \in 1..Len(cands) - 1 : Ge(cands[p[a]].score, cands[p[a + 1]].score)}

\* head(limit) whatever the risk level
PickCountNoReduction(risk_level, limit) == limit

\* line 679
PickCount(risk_level, limit) == IF risk_level = "meh" THEN 2 ELSE limit

\* kr_reco_block(risk_level, limit): i is [risk_level, limit, krx, uni], with
\* krx and uni what nearest_krx_day and build_universe_top_caps did (neither
\* has a handler), and order the order sort_values left the candidates in;
\* the result is the picks, with the locals candidates and sorted (the frame
\* sort_values returned) and the codes that were handed to score_candidate
kr_reco_block(i, order) ==
    LET Early(raised, status) ==
            [raised |-> raised, picks |-> <<>>, candidates |-> <<>>,
             sorted |-> <<>>, evaluated |-> <<>>, status |-> status]
    IN
    IF i.krx.raises THEN Early(TRUE, "exception")
    ELSE IF i.risk_level = "bad" THEN Early(FALSE, "bad")
    ELSE IF i.uni.raises THEN Early(TRUE, "exception")
    ELSE IF i.uni.rows = <<>> THEN Early(FALSE, "no_universe")
    ELSE
    LET cands  == ScoreAll(i.uni.rows)
        pick_n == PickCount(i.risk_level, i.limit)
        sorted == [k \in 1..Len(cands) |-> cands[order[k]]]
        codes  == [k \in 1..Len(i.uni.rows) |-> i.uni.rows[k].code]
    IN  IF cands = <<>>
        THEN [raised |-> FALSE, picks |-> <<>>, candidates |-> <<>>,
              sorted |-> <<>>, evaluated |-> codes, status |-> "no_candidates"]
        ELSE [raised |-> FALSE,
              picks |-> SubSeq(sorted, 1, IF pick_n < Len(sorted) THEN pick_n ELSE Len(sorted)),
              candidates |-> cands, sorted |-> sorted,
              evaluated |-> codes, status |-> "picks"]

(***************************************************************************)
(* telegram_send                                                           *)
(*                                                                         *)
(* A str is modelled run-length encoded: a sequence of runs [ch, n], n     *)
(* copies of the character ch, with n >= 1 and neighbouring runs of        *)
(* different characters, so that equal strings are equal sequences.        *)
(***************************************************************************)
MAX_LEN == 3800

RECURSIVE StrLen(_)
\* len(s)
StrLen(s) == IF s = <<>> THEN 0 ELSE Head(s).n + StrLen(Tail(s))

RECURSIVE SliceTo(_, _)
\* s[:k], k >= 0
SliceTo(s, k) ==
    IF s = <<>> \/ k <= 0 THEN <<>>
    ELSE IF Head(s).n <= k THEN <<Head(s)>> \o SliceTo(Tail(s), k - Head(s).n)
    ELSE <<[Head(s) EXCEPT !.n = k]>>

RECURSIVE SliceFrom(_, _)
\* s[k:], k >= 0
SliceFrom(s, k) ==
    IF s = <<>> THEN <<>>
    ELSE IF k <= 0 THEN s
    ELSE IF Head(s).n <= k THEN SliceFrom(Tail(s), k - Head(s).n)
    ELSE <<[Head(s) EXCEPT !.n = @ - k]>> \o Tail(s)

\* s.lstrip("\n")
lstrip(s) == IF s # <<>> /\ Head(s).ch = "\n" THEN Tail(s) ELSE s

RECURSIVE rfind(_, _, _)
\* the highest index below end of a "\n" in s, or -1; s[0] has index from
rfind(s, from, end) ==
    IF s = <<>> \/ from >= end THEN -1
    ELSE LET later == rfind(Tail(s), from + Head(s).n, end)
             last  == from + Head(s).n - 1
         IN  IF later >= 0 THEN later
             ELSE IF Head(s).ch = "\n" THEN (IF last < end THEN last ELSE end - 1)
             ELSE -1

\* the cut one position past MAX_LEN where no newline is found far enough
CutPastLimit(s) ==
    LET cut == rfind(s, 0, MAX_LEN)
    IN  IF cut < 800 THEN MAX_LEN + 1 ELSE cut

\* lines 83-85
Cut(s) ==
    LET cut == rfind(s, 0, MAX_LEN)
    IN  IF cut < 800 THEN MAX_LEN ELSE cut

(***************************************************************************)
(* Inputs                                                                  *)
(***************************************************************************)
\* the longest price history an index lookup returns
MaxHist == 2

Idle == [idle |-> TRUE]

FetchRaises == [raises |-> TRUE, closes |-> <<>>]

\* a history of len closes: base, ..., base, last
History(len, base, last) ==
    [raises |-> FALSE,
     closes |-> [k \in 1..len |-> IF k = len THEN R(last) ELSE R(base)]]

\* what the lookup of one index can do: raise, return fewer than two closes,
\* return a zero previous close, or return a last close among lasts after
\* closes of 1000
IndexFetches(lasts) ==
    {FetchRaises, History(0, 1000, 1000), History(1, 1000, 1000)}
    \cup {History(len, 0, 1000) : len \in 2..MaxHist}
    \cup {History(len, 1000, c) : len \in 2..MaxHist, c \in lasts}

FlowValues == {NaN, R(-5), R(3)}

FlowFetches ==
    {[kind |-> k, foreign |-> NaN, inst |-> NaN] : k \in {"raise", "empty", "unknown"}}
    \cup {[kind |-> "by_row", foreign |-> f, inst |-> i] : f \in FlowValues, i \in FlowValues}
    \cup {[kind |-> "by_col", foreign |-> R(-5), inst |-> R(-5)],
          [kind |-> "by_col", foreign |-> NaN, inst |-> NaN]}

MarketInputs ==
    [nasdaq : {FetchRaises, History(2, 1000, 1010)},
     spx    : {FetchRaises, History(2, 1000, 1010)},
     kospi  : IndexFetches({984, 985, 1000}),
     kosdaq : IndexFetches({981, 982, 1000}),
     vix    : IndexFetches({1000, 1059, 1060}),
     krx    : {[raises |-> FALSE], [raises |-> TRUE]},
     flow   : FlowFetches]

SnapValues ==
    [close   |-> {NaN, R(0), R(100), R(106), R(109), R(110)},
     ma20    |-> {NaN, R(0), R(100)},
     rsi     |-> {NaN, R(50), R(70), R(75), R(80)},
     chg5d   |-> {NaN, R(5), R(12), R(13), R(15)},
     high_3m |-> {NaN, R(0), R(110), R(112)}]

SnapFields == {"close", "ma20", "rsi", "chg5d", "high_3m"}

Snapshots ==
    [close : SnapValues.close, ma20 : SnapValues.ma20, rsi : SnapValues.rsi,
     chg5d : SnapValues.chg5d, high_3m : SnapValues.high_3m]

EntryInputs ==
    [close : {NaN, R(0), R(49), R(51), R(97), R(98), R(100), R(102), R(103)},
     ma20 : {NaN, R(0), R(50), R(100)},
     market_level : Levels]

\* the most codes a universe holds
MaxUniverse == 3

\* limit, as main passes it
DefaultLimit == 3

Rows(len, base, last) == [kind |-> "rows", len |-> len, base |-> base, last |-> last]

NoRows(kind) == [kind |-> kind, len |-> 0, base |-> 0, last |-> 0]

Fund(eps, per) == [kind |-> "row", eps |-> eps, per |-> per]

NoFund(kind) == [kind |-> kind, eps |-> NaN, per |-> NaN]

NoFlow(kind) == [kind |-> kind, foreign |-> NaN, inst |-> NaN]

FlowRows(f, i) == [kind |-> "by_row", foreign |-> f, inst |-> i]

\* what the lookups of score_candidate can do for one code
ScoreInputs ==
    [ohlcv : {NoRows(k) : k \in {"raise", "no_prev_days", "empty"}}
             \cup {Rows(len, base, last) :
                     len \in {9, 10, 19, 20, 26}, base \in {0, 100},
                     last \in {0, 90, 100, 105, 112, 113, 117, 118}},
     fund  : {NoFund("raise"), NoFund("empty")}
             \cup {Fund(eps, per) : eps \in {NaN, R(-1), R(0), R(500)},
                                    per \in {NaN, R(10), R(35), R(60)}},
     flow  : FlowFetches]

\* the lookup results the codes of a universe are given
CandidateData ==
    {[ohlcv |-> Rows(26, 100, 100), fund |-> Fund(R(500), R(10)), flow |-> NoFlow("empty")],
     [ohlcv |-> Rows(26, 100, 100), fund |-> Fund(R(500), R(35)), flow |-> NoFlow("empty")],
     [ohlcv |-> Rows(26, 100, 100), fund |-> Fund(R(500), R(10)), flow |-> FlowRows(R(-5), R(-5))],
     [ohlcv |-> Rows(20, 100, 105), fund |-> Fund(R(500), R(10)), flow |-> NoFlow("empty")],
     [ohlcv |-> Rows(26, 100, 113), fund |-> Fund(R(500), R(10)), flow |-> NoFlow("empty")],
     [ohlcv |-> Rows(10, 100, 118), fund |-> Fund(R(500), R(10)), flow |-> NoFlow("empty")],
     [ohlcv |-> Rows(20, 100, 105), fund |-> NoFund("empty"), flow |-> NoFlow("empty")],
     [ohlcv |-> Rows(20, 100, 105), fund |-> Fund(R(0), R(10)), flow |-> NoFlow("empty")],
     [ohlcv |-> Rows(20, 100, 105), fund |-> Fund(NaN, R(10)), flow |-> NoFlow("empty")],
     [ohlcv |-> NoRows("raise"), fund |-> Fund(R(500), R(10)), flow |-> NoFlow("empty")]}

\* the universes of n codes: the codes 1..n listed in ascending or in
\* descending order (the universe is ordered by market capitalisation, not by
\* code), each with its lookup results
Universes(n) ==
    {[k \in 1..n |-> [code |-> IF asc THEN k ELSE n + 1 - k, data |-> ds[k]]] :
        ds \in [1..n -> CandidateData], asc \in BOOLEAN}

\* the lookup of kr_reco_block's own that raises, if one does
RecoFailures == {"none", "nearest_krx_day", "build_universe_top_caps"}

\* the lookup results the codes are given where kr_reco_block is called twice:
\* two records that score 5 and 0 (the second with its flow lookup raising),
\* and the price and the fundamentals lookup raising or returning nothing
RerunData ==
    {[ohlcv |-> Rows(10, 100, 105), fund |-> Fund(R(500), R(10)), flow |-> FlowRows(R(3), R(3))],
     [ohlcv |-> Rows(10, 100, 100), fund |-> Fund(R(500), R(10)), flow |-> NoFlow("raise")],
     [ohlcv |-> NoRows("raise"), fund |-> Fund(R(500), R(10)), flow |-> NoFlow("empty")],
     [ohlcv |-> NoRows("empty"), fund |-> Fund(R(500), R(10)), flow |-> NoFlow("empty")],
     [ohlcv |-> Rows(10, 100, 105), fund |-> NoFund("raise"), flow |-> NoFlow("empty")],
     [ohlcv |-> Rows(10, 100, 105), fund |-> NoFund("empty"), flow |-> NoFlow("empty")]}

\* the universes of the codes 1..n, each with lookup results from data
UniversesOf(n, data) ==
    {[k \in 1..n |-> [code |-> k, data |-> ds[k]]] : ds \in [1..n -> data]}

\* the most codes a universe holds where the risk level changes between two
\* calls: one more than limit, so that head(limit) cuts
MaxGated == 4

\* the universes of the codes 1..n there: the codes in scored get a record
\* (code k scores k: a 10-row window 100, ..., 100, 100 + k, eps 500, per 10),
\* the others have no fundamentals
GateUniverses(n) ==
    {[k \in 1..n |->
        [code |-> k,
         data |-> [ohlcv |-> Rows(10, 100, 100 + k),
                   fund  |-> IF k \in scored THEN Fund(R(500), R(10)) ELSE NoFund("empty"),
                   flow  |-> NoFlow("empty")]]] :
     scored \in SUBSET (1..n)}

\* the universe with the rows at a and b exchanged
SwapRows(rows, a, b) ==
    [k \in 1..Len(rows) |-> IF k = a THEN rows[b] ELSE IF k = b THEN rows[a] ELSE rows[k]]

\* the universe without the row at j
DropRow(rows, j) == SubSeq(rows, 1, j - 1) \o SubSeq(rows, j + 1, Len(rows))

\* the most runs a text holds
MaxRuns == 3

\* the lengths of the runs of a text: around the 800 and the MAX_LEN of the
\* splitting loop
RunLens == {1, 2, 799, 800, 3000, MAX_LEN}

\* the texts of n runs
Texts(n) ==
    {s \in [1..n -> [ch : {"\n", "a", "b"}, n : RunLens]] :
        \A k \in 1..n - 1 : s[k].ch # s[k + 1].ch}

\* what happens to a request: it is accepted, or requests.post or
\* raise_for_status raises
PostOutcomes == {"ok", "raises"}

(***************************************************************************)
(* market_brief as called by main                                          *)
(***************************************************************************)
InitMarket ==
    /\ pc = "market_brief"
    /\ mb_in \in MarketInputs
    /\ mb_out = Idle
    /\ snap = Idle /\ ex_out = Idle /\ ex_prev = Idle
    /\ en_in = Idle /\ en_out = Idle
    /\ sc_in = Idle /\ sc_out = Idle
    /\ kr_in = Idle /\ kr_out = Idle
    /\ kr_prev = Idle
    /\ tg_text = Idle /\ tg_t = Idle /\ tg_parts = Idle /\ tg_sent = Idle

MarketBrief ==
    /\ pc = "market_brief"
    /\ mb_out' = market_brief(mb_in)
    /\ pc' = "market_brief_done"
    /\ UNCHANGED <<mb_in, snap, ex_out, ex_prev, en_in, en_out, sc_in, sc_out, kr_in, kr_out, kr_prev, tg_text, tg_t, tg_parts, tg_sent>>

NextMarket == MarketBrief

SpecMarket == InitMarket /\ [][NextMarket]_vars

(***************************************************************************)
(* exit_signals as called by main, once per tracked instrument             *)
(***************************************************************************)
InitExit ==
    /\ pc = "exit_signals"
    /\ snap \in Snapshots
    /\ ex_out = Idle /\ ex_prev = Idle
    /\ mb_in = Idle /\ mb_out = Idle
    /\ en_in = Idle /\ en_out = Idle
    /\ sc_in = Idle /\ sc_out = Idle
    /\ kr_in = Idle /\ kr_out = Idle
    /\ kr_prev = Idle
    /\ tg_text = Idle /\ tg_t = Idle /\ tg_parts = Idle /\ tg_sent = Idle

ExitSignals ==
    /\ pc = "exit_signals"
    /\ ex_out' = exit_signals(snap)
    /\ pc' = "exit_signals_done"
    /\ UNCHANGED <<mb_in, mb_out, snap, ex_prev, en_in, en_out, sc_in, sc_out, kr_in, kr_out, kr_prev, tg_text, tg_t, tg_parts, tg_sent>>

\* main's loop goes on to the next snapshot; the model keeps the evaluation
\* just made and draws the next snapshot among those that differ from it in
\* one field
NextSnapshot ==
    /\ pc = "exit_signals_done"
    /\ \E f \in SnapFields : \E v \in SnapValues[f] :
          /\ v # snap[f]
          /\ snap' = [snap EXCEPT ![f] = v]
    /\ ex_prev' = [snap |-> snap, out |-> ex_out]
    /\ pc' = "exit_signals"
    /\ UNCHANGED <<mb_in, mb_out, ex_out, en_in, en_out, sc_in, sc_out, kr_in, kr_out, kr_prev, tg_text, tg_t, tg_parts, tg_sent>>

NextExit == ExitSignals \/ NextSnapshot

SpecExit == InitExit /\ [][NextExit]_vars

(***************************************************************************)
(* entry_plan_us as called by main                                         *)
(***************************************************************************)
InitEntry ==
    /\ pc = "entry_plan_us"
    /\ en_in \in EntryInputs
    /\ en_out = Idle
    /\ mb_in = Idle /\ mb_out = Idle
    /\ snap = Idle /\ ex_out = Idle /\ ex_prev = Idle
    /\ sc_in = Idle /\ sc_out = Idle
    /\ kr_in = Idle /\ kr_out = Idle
    /\ kr_prev = Idle
    /\ tg_text = Idle /\ tg_t = Idle /\ tg_parts = Idle /\ tg_sent = Idle

EntryPlanUs ==
    /\ pc = "entry_plan_us"
    /\ en_out' = entry_plan_us(en_in.close, en_in.ma20, en_in.market_level)
    /\ pc' = "entry_plan_us_done"
    /\ UNCHANGED <<mb_in, mb_out, snap, ex_out, ex_prev, en_in, sc_in, sc_out, kr_in, kr_out, kr_prev, tg_text, tg_t, tg_parts, tg_sent>>

NextEntry == EntryPlanUs

SpecEntry == InitEntry /\ [][NextEntry]_vars

(***************************************************************************)
(* score_candidate for one code                                            *)
(***************************************************************************)
InitScore ==
    /\ pc = "score_candidate"
    /\ sc_in \in ScoreInputs
    /\ sc_out = Idle
    /\ mb_in = Idle /\ mb_out = Idle
    /\ snap = Idle /\ ex_out = Idle /\ ex_prev = Idle
    /\ en_in = Idle /\ en_out = Idle
    /\ kr_in = Idle /\ kr_out = Idle
    /\ kr_prev = Idle
    /\ tg_text = Idle /\ tg_t = Idle /\ tg_parts = Idle /\ tg_sent = Idle

ScoreCandidate ==
    /\ pc = "score_candidate"
    /\ sc_out' = score_candidate(1, sc_in)
    /\ pc' = "score_candidate_done"
    /\ UNCHANGED <<mb_in, mb_out, snap, ex_out, ex_prev, en_in, en_out, sc_in, kr_in, kr_out, kr_prev, tg_text, tg_t, tg_parts, tg_sent>>

NextScore == ScoreCandidate

SpecScore == InitScore /\ [][NextScore]_vars

(***************************************************************************)
(* kr_reco_block as called by main                                         *)
(***************************************************************************)
InitReco ==
    /\ pc = "kr_reco_block"
    /\ \E n \in 0..MaxUniverse : \E u \in Universes(n) :
       \E lvl \in Levels : \E fails \in RecoFailures :
          /\ fails # "none" => n = 0
          /\ kr_in = [risk_level |-> lvl, limit |-> DefaultLimit,
                      krx |-> [raises |-> fails = "nearest_krx_day"],
                      uni |-> [raises |-> fails = "build_universe_top_caps", rows |-> u]]
    /\ kr_out = Idle
    /\ mb_in = Idle /\ mb_out = Idle
    /\ snap = Idle /\ ex_out = Idle /\ ex_prev = Idle
    /\ en_in = Idle /\ en_out = Idle
    /\ sc_in = Idle /\ sc_out = Idle
    /\ kr_prev = Idle
    /\ tg_text = Idle /\ tg_t = Idle /\ tg_parts = Idle /\ tg_sent = Idle

KrRecoBlock ==
    /\ pc = "kr_reco_block"
    /\ \E order \in SortOrders(RecoCandidates(kr_in)) :
          kr_out' = kr_reco_block(kr_in, order)
    /\ pc' = "kr_reco_block_done"
    /\ UNCHANGED <<mb_in, mb_out, snap, ex_out, ex_prev, en_in, en_out, sc_in, sc_out, kr_in, kr_prev, tg_text, tg_t, tg_parts, tg_sent>>

NextReco == KrRecoBlock

SpecReco == InitReco /\ [][NextReco]_vars

(***************************************************************************)
(* kr_reco_block called again, on the same universe in another order or    *)
(* on the universe without one of its codes                                *)
(***************************************************************************)
InitRerun ==
    /\ pc = "kr_reco_block"
    /\ \E n \in 0..MaxUniverse : \E u \in UniversesOf(n, RerunData) : \E lvl \in Levels :
          kr_in = [risk_level |-> lvl, limit |-> DefaultLimit,
                   krx |-> [raises |-> FALSE],
                   uni |-> [raises |-> FALSE, rows |-> u]]
    /\ kr_out = Idle /\ kr_prev = Idle
    /\ mb_in = Idle /\ mb_out = Idle
    /\ snap = Idle /\ ex_out = Idle /\ ex_prev = Idle
    /\ en_in = Idle /\ en_out = Idle
    /\ sc_in = Idle /\ sc_out = Idle
    /\ tg_text = Idle /\ tg_t = Idle /\ tg_parts = Idle /\ tg_sent = Idle

\* build_universe_top_caps lists the same codes in another order (two of
\* them exchanged); the model keeps the call just made
PermuteUniverse ==
    /\ pc = "kr_reco_block_done" /\ ~kr_out.raised
    /\ \E a, b \in 1..Len(kr_in.uni.rows) :
          /\ a < b
          /\ kr_in' = [kr_in EXCEPT !.uni.rows = SwapRows(kr_in.uni.rows, a, b)]
    /\ kr_prev' = [in |-> kr_in, out |-> kr_out, change |-> "permuted", at |-> 0]
    /\ pc' = "kr_reco_block_again"
    /\ UNCHANGED <<mb_in, mb_out, snap, ex_out, ex_prev, en_in, en_out, sc_in, sc_out, kr_out, tg_text, tg_t, tg_parts, tg_sent>>

\* build_universe_top_caps lists the same codes but one; the model keeps
\* the call just made
DropCandidate ==
    /\ pc = "kr_reco_block_done" /\ ~kr_out.raised
    /\ \E j \in 1..Len(kr_in.uni.rows) :
          /\ kr_in' = [kr_in EXCEPT !.uni.rows = DropRow(kr_in.uni.rows, j)]
          /\ kr_prev' = [in |-> kr_in, out |-> kr_out, change |-> "dropped", at |-> j]
    /\ pc' = "kr_reco_block_again"
    /\ UNCHANGED <<mb_in, mb_out, snap, ex_out, ex_prev, en_in, en_out, sc_in, sc_out, kr_out, tg_text, tg_t, tg_parts, tg_sent>>

\* the second call: sort_values is a function of the frame it is given, so
\* the same candidates come out in the order they came out in before
KrRecoBlockAgain ==
    /\ pc = "kr_reco_block_again"
    /\ \E order \in SortOrders(RecoCandidates(kr_in)) :
          LET out == kr_reco_block(kr_in, order)
          IN  /\ out.candidates = kr_prev.out.candidates
                    => out.sorted = kr_prev.out.sorted
              /\ kr_out' = out
    /\ pc' = "kr_reco_block_compared"
    /\ UNCHANGED <<mb_in, mb_out, snap, ex_out, ex_prev, en_in, en_out, sc_in, sc_out, kr_in, kr_prev, tg_text, tg_t, tg_parts, tg_sent>>

NextRerun == KrRecoBlock \/ PermuteUniverse \/ DropCandidate \/ KrRecoBlockAgain

SpecRerun == InitRerun /\ [][NextRerun]_vars

(***************************************************************************)
(* kr_reco_block called again on the same universe at another risk level   *)
(***************************************************************************)
InitGate ==
    /\ pc = "kr_reco_block"
    /\ \E n \in 0..MaxGated : \E u \in GateUniverses(n) :
       \E lvl \in Levels : \E fails \in RecoFailures :
          /\ fails # "none" => n = 0
          /\ kr_in = [risk_level |-> lvl, limit |-> DefaultLimit,
                      krx |-> [raises |-> fails = "nearest_krx_day"],
                      uni |-> [raises |-> fails = "build_universe_top_caps", rows |-> u]]
    /\ kr_out = Idle /\ kr_prev = Idle
    /\ mb_in = Idle /\ mb_out = Idle
    /\ snap = Idle /\ ex_out = Idle /\ ex_prev = Idle
    /\ en_in = Idle /\ en_out = Idle
    /\ sc_in = Idle /\ sc_out = Idle
    /\ tg_text = Idle /\ tg_t = Idle /\ tg_parts = Idle /\ tg_sent = Idle

\* market_brief classifies the day otherwise; the model keeps the call just
\* made
ChangeRiskLevel ==
    /\ pc = "kr_reco_block_done" /\ ~kr_out.raised
    /\ \E lvl \in Levels :
          /\ lvl # kr_in.risk_level
          /\ kr_in' = [kr_in EXCEPT !.risk_level = lvl]
    /\ kr_prev' = [in |-> kr_in, out |-> kr_out, change |-> "risk_level", at |-> 0]
    /\ pc' = "kr_reco_block_again"
    /\ UNCHANGED <<mb_in, mb_out, snap, ex_out, ex_prev, en_in, en_out, sc_in, sc_out, kr_out, tg_text, tg_t, tg_parts, tg_sent>>

NextGate == KrRecoBlock \/ ChangeRiskLevel \/ KrRecoBlockAgain

SpecGate == InitGate /\ [][NextGate]_vars

(***************************************************************************)
(* telegram_send as called by main                                         *)
(***************************************************************************)
InitTelegram ==
    /\ pc = "tg_while"
    /\ \E n \in 0..MaxRuns : tg_text \in Texts(n)
    /\ tg_t = tg_text
    /\ tg_parts = <<>>
    /\ tg_sent = <<>>
    /\ mb_in = Idle /\ mb_out = Idle
    /\ snap = Idle /\ ex_out = Idle /\ ex_prev = Idle
    /\ en_in = Idle /\ en_out = Idle
    /\ sc_in = Idle /\ sc_out = Idle
    /\ kr_in = Idle /\ kr_out = Idle /\ kr_prev = Idle

\* lines 82-87: one turn of the while loop
SplitStep ==
    /\ pc = "tg_while"
    /\ StrLen(tg_t) > MAX_LEN
    /\ tg_parts' = Append(tg_parts, SliceTo(tg_t, Cut(tg_t)))
    /\ tg_t' = lstrip(SliceFrom(tg_t, Cut(tg_t)))
    /\ UNCHANGED <<pc, mb_in, mb_out, snap, ex_out, ex_prev, en_in, en_out, sc_in, sc_out, kr_in, kr_out, kr_prev, tg_text, tg_sent>>

\* lines 82 and 89: the loop is left and the rest appended
SplitEnd ==
    /\ pc = "tg_while"
    /\ StrLen(tg_t) <= MAX_LEN
    /\ tg_parts' = Append(tg_parts, tg_t)
    /\ pc' = "tg_post"
    /\ UNCHANGED <<mb_in, mb_out, snap, ex_out, ex_prev, en_in, en_out, sc_in, sc_out, kr_in, kr_out, kr_prev, tg_text, tg_t, tg_sent>>

\* lines 92-100: the next part is posted
Post ==
    /\ pc = "tg_post"
    /\ Len(tg_sent) < Len(tg_parts)
    /\ \E outcome \in PostOutcomes :
          \/ /\ outcome = "ok"
             /\ tg_sent' = Append(tg_sent, tg_parts[Len(tg_sent) + 1])
             /\ pc' = pc
          \/ /\ outcome = "raises"
             /\ tg_sent' = tg_sent
             /\ pc' = "tg_raised"
    /\ UNCHANGED <<mb_in, mb_out, snap, ex_out, ex_prev, en_in, en_out, sc_in, sc_out, kr_in, kr_out, kr_prev, tg_text, tg_t, tg_parts>>

\* the for loop is through
Return ==
    /\ pc = "tg_post"
    /\ Len(tg_sent) = Len(tg_parts)
    /\ pc' = "tg_done"
    /\ UNCHANGED <<mb_in, mb_out, snap, ex_out, ex_prev, en_in, en_out, sc_in, sc_out, kr_in, kr_out, kr_prev, tg_text, tg_t, tg_parts, tg_sent>>

NextTelegram == SplitStep \/ SplitEnd \/ Post \/ Return

SpecTelegram == InitTelegram /\ [][NextTelegram]_vars

(***************************************************************************)
(* Properties of market_brief                                              *)
(***************************************************************************)
MarketReturned == pc = "market_brief_done" /\ ~mb_out.raised

KospiFires  == Le(mb_out.kospi, Q(-15, 10))
KosdaqFires == Le(mb_out.kosdaq, Q(-18, 10))
VixFires    == Ge(mb_out.vix, R(6))
FlowFires   ==
    /\ ~mb_out.flow.none
    /\ ~is_nan(mb_out.flow.foreign) /\ ~is_nan(mb_out.flow.inst)
    /\ Lt(mb_out.flow.foreign, R(0)) /\ Lt(mb_out.flow.inst, R(0))

FiringConditions ==
    Cardinality({c \in {"kospi", "kosdaq", "vix", "flow"} :
        \/ c = "kospi" /\ KospiFires
        \/ c = "kosdaq" /\ KosdaqFires
        \/ c = "vix" /\ VixFires
        \/ c = "flow" /\ FlowFires})

\* C1: when market_brief returns, the risk-hit counter is the number of the
\* four conditions that fire (a NaN return and absent or partly NaN flow data
\* fire nothing), and the level is bad for two or more hits, meh for one and
\* good for none.
C1_HitsCountFiringConditions ==
    MarketReturned =>
        /\ mb_out.risk_hits = FiringConditions
        /\ (mb_out.risk_hits >= 2 => mb_out.level = "bad")
        /\ (mb_out.risk_hits = 1 => mb_out.level = "meh")
        /\ (mb_out.risk_hits = 0 => mb_out.level = "good")
        /\ (is_nan(mb_out.kospi) => ~KospiFires)
        /\ (is_nan(mb_out.kosdaq) => ~KosdaqFires)
        /\ (is_nan(mb_out.vix) => ~VixFires)
        /\ (mb_out.flow.none \/ is_nan(mb_out.flow.foreign) \/ is_nan(mb_out.flow.inst)
              => ~FlowFires)

\* the scenario of the specification: the domestic index and the flow fire,
\* the other two do not
C1_Witness ==
    /\ MarketReturned
    /\ KospiFires /\ FlowFires /\ ~KosdaqFires /\ ~VixFires
    /\ mb_out.risk_hits = 2 /\ mb_out.level = "bad"

\* C2: market_brief never fails: whatever its lookups did, it returns one of
\* the three levels and no exception leaves it.
C2_MarketBriefNeverFails ==
    pc = "market_brief_done" => (~mb_out.raised /\ mb_out.level \in Levels)

(***************************************************************************)
(* Properties of exit_signals                                              *)
(***************************************************************************)
ExitReturned == pc = "exit_signals_done"

StageRank(st) == CHOOSE k \in 1..Len(Stages) : Stages[k] = st

Dist20Defined == ~is_nan(snap.ma20) /\ ~IsZero(snap.ma20) /\ ~is_nan(snap.close)

\* dist20 = (close/ma20 - 1)*100 >= k
Dist20AtLeast(k) ==
    Dist20Defined /\ Ge(Mul(Sub(Div(snap.close, snap.ma20), R(1)), R(100)), R(k))

RsiAtLeast(k) == Ge(snap.rsi, R(k))
Chg5dAtLeast(k) == Ge(snap.chg5d, R(k))
CloseNearHigh == Ge(snap.close, Mul(snap.high_3m, Q(98, 100)))

\* the stage as the claim derives it from the flags and the inputs
ClaimedStage(flags) ==
    LET n == Cardinality(flags)
    IN  IF n >= 3 /\ (RsiAtLeast(80) \/ Chg5dAtLeast(15)
                       \/ ("near_high" \in flags /\ Dist20AtLeast(9)))
        THEN "third"
        ELSE IF n >= 3 THEN "second"
        ELSE IF n = 2 THEN "first"
        ELSE "none"

\* C3 as stated: each flag is set iff its threshold is met, the near-high flag
\* iff close >= high_3m * 0.98, and the stage follows from the number of flags
\* and the escalation predicate.
C3_FlagsAndStageAsStated ==
    ExitReturned =>
        /\ ("rsi" \in ex_out.flags <=> RsiAtLeast(70))
        /\ ("dist20" \in ex_out.flags <=> Dist20AtLeast(6))
        /\ ("chg5d" \in ex_out.flags <=> Chg5dAtLeast(12))
        /\ ("near_high" \in ex_out.flags <=> CloseNearHigh)
        /\ ex_out.n = Cardinality(ex_out.flags)
        /\ ex_out.stage = ClaimedStage(ex_out.flags)

\* C3, amended: as stated, except that the near-high flag is set iff
\* high_3m is not zero and close >= high_3m * 0.98.
C3_FlagsAndStage ==
    ExitReturned =>
        /\ ("rsi" \in ex_out.flags <=> RsiAtLeast(70))
        /\ ("dist20" \in ex_out.flags <=> Dist20AtLeast(6))
        /\ ("chg5d" \in ex_out.flags <=> Chg5dAtLeast(12))
        /\ ("near_high" \in ex_out.flags <=> (~IsZero(snap.high_3m) /\ CloseNearHigh))
        /\ ex_out.n = Cardinality(ex_out.flags)
        /\ ex_out.stage = ClaimedStage(ex_out.flags)

\* three flags without the near-high one, escalated by rsi >= 80, and a
\* high_3m of zero that the close is above
C3_Witness ==
    /\ ExitReturned
    /\ IsZero(snap.high_3m) /\ CloseNearHigh
    /\ ex_out.flags = {"rsi", "dist20", "chg5d"}
    /\ ex_out.stage = "third"

ExitCompared == ExitReturned /\ "idle" \notin DOMAIN ex_prev

\* C4: of two evaluations whose inputs differ in one field, the second having
\* a strict superset of the first one's flags, the second one's stage is not
\* lower than the first one's.
C4_StageMonotone ==
    (ExitCompared /\ ex_prev.out.flags \subseteq ex_out.flags
                  /\ ex_prev.out.flags # ex_out.flags)
        => StageRank(ex_prev.out.stage) <= StageRank(ex_out.stage)

\* a fourth flag added to three escalated ones, and the stage stays third
C4_Witness ==
    /\ ExitCompared
    /\ ex_prev.out.n = 3 /\ ex_prev.out.stage = "third"
    /\ ex_out.n = 4 /\ ex_prev.out.flags \subseteq ex_out.flags
    /\ ex_out.stage = "third"

\* C5: an undefined input triggers neither its flag nor its part of the
\* escalation predicate, and exit_signals returns a stage all the same; with
\* all five inputs undefined the stage is none and no flag is set.
C5_UndefinedNeverTriggers ==
    ExitReturned =>
        /\ ex_out.stage \in {Stages[k] : k \in 1..Len(Stages)}
        /\ (is_nan(snap.rsi) =>
               /\ "rsi" \notin ex_out.flags
               /\ (ex_out.stage = "third" =>
                      Chg5dAtLeast(15) \/ ("near_high" \in ex_out.flags /\ Dist20AtLeast(9))))
        /\ (is_nan(snap.chg5d) =>
               /\ "chg5d" \notin ex_out.flags
               /\ (ex_out.stage = "third" =>
                      RsiAtLeast(80) \/ ("near_high" \in ex_out.flags /\ Dist20AtLeast(9))))
        /\ (is_nan(snap.ma20) \/ IsZero(snap.ma20) \/ is_nan(snap.close) =>
               /\ is_nan(ex_out.dist20)
               /\ "dist20" \notin ex_out.flags
               /\ (ex_out.stage = "third" => RsiAtLeast(80) \/ Chg5dAtLeast(15)))
        /\ (is_nan(snap.high_3m) \/ IsZero(snap.high_3m) \/ is_nan(snap.close) =>
               "near_high" \notin ex_out.flags)
        /\ (is_nan(snap.rsi) /\ is_nan(snap.chg5d) /\ is_nan(snap.ma20)
              /\ is_nan(snap.close) /\ is_nan(snap.high_3m) =>
               ex_out.stage = "none" /\ ex_out.flags = {})

\* rsi undefined and ma20 zero while the two other flags fire
C5_Witness ==
    /\ ExitReturned
    /\ is_nan(snap.rsi) /\ IsZero(snap.ma20)
    /\ ex_out.flags = {"chg5d", "near_high"}
    /\ ex_out.stage = "first"

Scenario1 ==
    [close |-> R(110), ma20 |-> R(100), rsi |-> R(75), chg5d |-> R(13),
     high_3m |-> R(112)]

Scenario2 ==
    [close |-> R(100), ma20 |-> R(100), rsi |-> R(50), chg5d |-> R(5),
     high_3m |-> R(110)]

\* C6 as stated: the first snapshot gives the three flags RSI, MA20 distance
\* and 5-day momentum, n = 3, an escalation and the stage third; the second
\* gives no flag and the stage none.
C6_ScenariosAsStated ==
    /\ (ExitReturned /\ snap = Scenario1 =>
           /\ ex_out.flags = {"rsi", "dist20", "chg5d"}
           /\ ex_out.n = 3
           /\ ex_out.esc
           /\ ex_out.stage = "third")
    /\ (ExitReturned /\ snap = Scenario2 =>
           ex_out.flags = {} /\ ex_out.stage = "none")

\* C6, amended: the first snapshot sets all four flags (the near-high flag
\* too, which the escalation rests on), so n = 4, and the stage is third; the
\* second gives no flag and the stage none.
C6_Scenarios ==
    /\ (ExitReturned /\ snap = Scenario1 =>
           /\ ex_out.flags = {"rsi", "dist20", "chg5d", "near_high"}
           /\ ex_out.n = 4
           /\ ex_out.esc
           /\ ~RsiAtLeast(80) /\ ~Chg5dAtLeast(15) /\ Dist20AtLeast(9)
           /\ ex_out.stage = "third")
    /\ (ExitReturned /\ snap = Scenario2 =>
           ex_out.flags = {} /\ ex_out.stage = "none")

C6_Witness == ExitReturned /\ snap = Scenario1 /\ ex_out.stage = "third"

(***************************************************************************)
(* Properties of entry_plan_us                                             *)
(***************************************************************************)
EntryReturned == pc = "entry_plan_us_done"

EntryLow == Mul(en_in.ma20, Q(98, 100))
EntryHigh == Mul(en_in.ma20, Q(102, 100))

\* C7: entry_plan_us returns one of five outcomes, decided in this order: bad
\* market, whatever close and ma20 are; undefined close or ma20, or zero ma20;
\* close above ma20 * 1.02; close below ma20 * 0.98; close inside the band,
\* its two ends included.
C7_EntryPlanOrder ==
    EntryReturned =>
        LET bad     == en_in.market_level = "bad"
            nodata  == is_nan(en_in.close) \/ is_nan(en_in.ma20) \/ IsZero(en_in.ma20)
            above   == Gt(en_in.close, EntryHigh)
            below   == Lt(en_in.close, EntryLow)
        IN  /\ en_out.plan \in {"defer_bad", "insufficient", "above", "below", "inside"}
            /\ (en_out.plan = "defer_bad" <=> bad)
            /\ (en_out.plan = "insufficient" <=> ~bad /\ nodata)
            /\ (en_out.plan = "above" <=> ~bad /\ ~nodata /\ above)
            /\ (en_out.plan = "below" <=> ~bad /\ ~nodata /\ ~above /\ below)
            /\ (en_out.plan = "inside" <=>
                   ~bad /\ ~nodata /\ Le(EntryLow, en_in.close) /\ Le(en_in.close, EntryHigh))

\* a close exactly on the lower end of the band is inside it
C7_Witness ==
    /\ EntryReturned
    /\ en_in.market_level # "bad"
    /\ ~is_nan(en_in.close) /\ ~is_nan(en_in.ma20) /\ ~IsZero(en_in.ma20)
    /\ en_in.close = EntryLow
    /\ en_out.plan = "inside"

(***************************************************************************)
(* Properties of score_candidate and kr_reco_block                         *)
(***************************************************************************)
RecoReturned == pc = "kr_reco_block_done" /\ ~kr_out.raised

\* dist20 and momentum5 of a code's price window, from the lookup results
WindowDist20(d) ==
    LET closes == Closes(d.ohlcv)
    IN  IF Len(closes) = 0 THEN NaN
        ELSE CandDist20(R(closes[Len(closes)]), RollingMeanLast(closes, 20))

WindowMom5(d) == CandMom5(Closes(d.ohlcv))

\* the hard exclusions, on the lookup results of a code
HardExcluded(d) ==
    \/ Ge(WindowDist20(d), R(12))
    \/ Ge(WindowMom5(d), R(18))
    \/ d.fund.kind # "row"
    \/ is_nan(d.fund.eps)
    \/ Le(d.fund.eps, R(0))

CodesOf(records) == {records[k].code : k \in 1..Len(records)}

\* C8: hard exclusion is absolute: whatever the universe and the risk level,
\* no pick has dist20 >= 12, momentum5 >= 18, unavailable fundamentals or an
\* eps that is undefined or not positive, and score_candidate returns no
\* record for a code that meets one of these.
C8_HardExclusionAbsolute ==
    RecoReturned =>
        /\ \A k \in 1..Len(kr_out.picks) :
              LET p == kr_out.picks[k]
              IN  /\ ~Ge(p.dist20, R(12))
                  /\ ~Ge(p.mom5, R(18))
                  /\ Gt(p.eps, R(0))
        /\ \A j \in 1..Len(kr_in.uni.rows) :
              LET row == kr_in.uni.rows[j]
              IN  HardExcluded(row.data) =>
                     /\ row.code \notin CodesOf(kr_out.picks)
                     /\ row.code \notin CodesOf(kr_out.candidates)

\* a universe with a code dropped for dist20 >= 12, a code dropped for its
\* eps, and a pick
C8_Witness ==
    /\ RecoReturned
    /\ Len(kr_out.picks) = 1
    /\ \E j \in 1..Len(kr_in.uni.rows) : Ge(WindowDist20(kr_in.uni.rows[j].data), R(12))
    /\ \E j \in 1..Len(kr_in.uni.rows) : Le(kr_in.uni.rows[j].data.fund.eps, R(0))

ScoreReturned == pc = "score_candidate_done"

\* the score the claim gives a record
ClaimedScore(c) ==
    LET m == IF is_nan(c.mom5) THEN R(0) ELSE c.mom5
        t == IF is_nan(c.dist20) THEN R(0)
             ELSE IF Ge(c.dist20, R(6)) THEN Q(42, 10)
             ELSE IF Le(c.dist20, R(-6)) THEN Q(-42, 10)
             ELSE Mul(c.dist20, Q(7, 10))
        v == IF Ge(c.per, R(60)) THEN R(-5)
             ELSE IF Ge(c.per, R(35)) /\ Lt(c.per, R(60)) THEN R(-2)
             ELSE R(0)
        f == IF ~c.flow.none /\ Lt(c.flow.foreign, R(0)) /\ Lt(c.flow.inst, R(0))
             THEN Q(-35, 10) ELSE R(0)
    IN  Add(Add(Add(m, t), v), f)

\* C9: the score of a record score_candidate returns is momentum5 (0 if
\* undefined) + clamp(dist20, -6, 6) * 0.7 (0 if undefined) + the valuation
\* adjustment of per (-5 from 60, -2 from 35, else 0) + the flow penalty
\* (-3.5 iff both net flows are there, defined and negative).
C9_ScoreFormula ==
    (ScoreReturned /\ ~sc_out.none) =>
        /\ sc_out.score = ClaimedScore(sc_out)
        /\ sc_out.mom5 = WindowMom5(sc_in)
        /\ sc_out.dist20 = WindowDist20(sc_in)
        /\ sc_out.per = sc_in.fund.per

\* a record with every term at work: momentum 12, dist20 above 6 clamped,
\* per 60 and both flows negative: 12 + 4.2 - 5 - 3.5
C9_Witness ==
    /\ ScoreReturned /\ ~sc_out.none
    /\ sc_out.mom5 = R(12)
    /\ Gt(sc_out.dist20, R(6))
    /\ sc_out.per = R(60)
    /\ ~sc_out.flow.none /\ Lt(sc_out.flow.foreign, R(0)) /\ Lt(sc_out.flow.inst, R(0))
    /\ sc_out.score = Q(77, 10)

\* score_candidate was given a window of at least 10 and fewer than 20 rows
ShortWindow ==
    /\ ScoreReturned
    /\ sc_in.ohlcv.kind = "rows"
    /\ sc_in.ohlcv.len >= 10 /\ sc_in.ohlcv.len < 20

\* the average of the rows there are, and the distance of the close from it
ShortAverage(d) == Q(SumFrom(Closes(d.ohlcv), 1), d.ohlcv.len)

ShortDist20(d) == CandDist20(R(d.ohlcv.last), ShortAverage(d))

\* C14 as stated: for a window of at least 10 and fewer than 20 rows ma20 is
\* the average of the rows there are, so that dist20 is defined when that
\* average is not zero, a dist20 >= 12 drops the candidate, and the score has
\* the term clamp(dist20) * 0.7.
C14_ShortWindowAverageAsStated ==
    ShortWindow =>
        /\ Ge(ShortDist20(sc_in), R(12)) => sc_out.none
        /\ ~sc_out.none =>
              /\ sc_out.ma20 = ShortAverage(sc_in)
              /\ sc_out.dist20 = ShortDist20(sc_in)
              /\ sc_out.score = Score(WindowMom5(sc_in), ShortDist20(sc_in),
                                      sc_in.fund.per, FlowPenalty(sc_out.flow))

\* C14, amended: for a window of at least 10 and fewer than 20 rows ma20
\* and dist20 are undefined: the candidate is dropped iff momentum5 >= 18 or
\* it has no positive eps, whatever its distance from the average of its
\* rows, and the score has no dist20 term.
C14_ShortWindowUndefined ==
    ShortWindow =>
        /\ sc_out.none <=>
              \/ Ge(WindowMom5(sc_in), R(18))
              \/ NotProfitable(kr_fundamental(sc_in.fund))
        /\ ~sc_out.none =>
              /\ is_nan(sc_out.ma20)
              /\ is_nan(sc_out.dist20)
              /\ sc_out.score = Score(WindowMom5(sc_in), NaN,
                                      sc_in.fund.per, FlowPenalty(sc_out.flow))

\* a record for a short window whose close is 12% or more above the average
\* of its rows
C14_Witness ==
    /\ ShortWindow
    /\ ~sc_out.none
    /\ Ge(ShortDist20(sc_in), R(12))
    /\ is_nan(sc_out.dist20)

\* a before b in the ranking the claim describes
RankedBefore(a, b) ==
    \/ Gt(a.score, b.score)
    \/ (a.score = b.score /\ a.code < b.code)

\* C10: the picks are ordered by score descending, and candidates of equal
\* score by code ascending, both among the picks and in which of them are
\* picked.
C10_TieBreakByCode ==
    RecoReturned =>
        /\ \A a, b \in 1..Len(kr_out.picks) :
              a < b => RankedBefore(kr_out.picks[a], kr_out.picks[b])
        /\ \A a \in 1..Len(kr_out.picks) : \A b \in 1..Len(kr_out.candidates) :
              kr_out.candidates[b].code \notin CodesOf(kr_out.picks)
                 => RankedBefore(kr_out.picks[a], kr_out.candidates[b])

(***************************************************************************)
(* Properties of two calls of kr_reco_block                                *)
(***************************************************************************)
\* two calls were made and both returned; change is what differs in the
\* second call's input
RecoCompared(change) ==
    /\ pc = "kr_reco_block_compared"
    /\ kr_prev.change = change
    /\ ~kr_out.raised

\* C11: the ranked list does not depend on the evaluation order: called on
\* the same universe with its codes in another order, with the same lookup
\* results and the same risk level, kr_reco_block returns the same sequence
\* of picks, equal scores included.
C11_PicksIndependentOfOrder ==
    RecoCompared("permuted") => kr_out.picks = kr_prev.out.picks

\* a call of kr_reco_block, the first or the second, has returned
RecoResult ==
    /\ pc \in {"kr_reco_block_done", "kr_reco_block_compared"}
    /\ ~kr_out.raised

PriceLookupFailed(d) == d.ohlcv.kind \in {"raise", "no_prev_days", "empty"}
FundLookupFailed(d) == d.fund.kind \in {"raise", "empty"}
FlowLookupFailed(d) == d.flow.kind \in {"raise", "empty"}

\* the row the second call's universe lacks
DroppedRow == kr_prev.in.uni.rows[kr_prev.at]

\* two calls returned, the second on the universe without one code, on a
\* day candidates are scored
RecoDropped ==
    /\ RecoCompared("dropped")
    /\ kr_in.risk_level # "bad"

\* every code of the first call's universe was handed to score_candidate
AllEvaluated ==
    kr_prev.out.evaluated =
        [k \in 1..Len(kr_prev.in.uni.rows) |-> kr_prev.in.uni.rows[k].code]

\* C13 as stated: a code whose price, fundamentals or flow lookup raised or
\* returned nothing is the only one left out: every code is evaluated, and the
\* picks are those of the universe without that code.
C13_FailureExcludesOnlyThatAsStated ==
    (/\ RecoDropped
     /\ \/ PriceLookupFailed(DroppedRow.data)
        \/ FundLookupFailed(DroppedRow.data)
        \/ FlowLookupFailed(DroppedRow.data))
    => /\ AllEvaluated
       /\ kr_out.picks = kr_prev.out.picks

\* C13, amended: a code whose price or fundamentals lookup raised or
\* returned nothing is the only one left out: every code is evaluated, the
\* code is no candidate, and the candidates and the picks are those of the
\* universe without it; a code whose flow lookup alone failed is scored, with
\* no flow penalty.
C13_FailureExcludesOnlyThat ==
    RecoDropped =>
        /\ AllEvaluated
        /\ (PriceLookupFailed(DroppedRow.data) \/ FundLookupFailed(DroppedRow.data)) =>
              /\ DroppedRow.code \notin CodesOf(kr_prev.out.candidates)
              /\ kr_out.candidates = kr_prev.out.candidates
              /\ kr_out.picks = kr_prev.out.picks
        /\ (/\ FlowLookupFailed(DroppedRow.data)
            /\ ~PriceLookupFailed(DroppedRow.data)
            /\ ~FundLookupFailed(DroppedRow.data)
            /\ ~HardExcluded(DroppedRow.data)) =>
              \E k \in 1..Len(kr_prev.out.candidates) :
                 /\ kr_prev.out.candidates[k].code = DroppedRow.code
                 /\ kr_prev.out.candidates[k].flow = None
                 /\ kr_prev.out.candidates[k].score =
                       Score(WindowMom5(DroppedRow.data), WindowDist20(DroppedRow.data),
                             DroppedRow.data.fund.per, R(0))

\* three codes, the second with its price lookup raising, the other two
\* picked in both calls
C13_Witness ==
    /\ RecoDropped
    /\ Len(kr_prev.in.uni.rows) = 3 /\ kr_prev.at = 2
    /\ DroppedRow.data.ohlcv.kind = "raise"
    /\ Len(kr_prev.out.picks) = 2
    /\ kr_out.picks = kr_prev.out.picks
    /\ kr_out.evaluated = <<kr_prev.out.evaluated[1], kr_prev.out.evaluated[3]>>

(***************************************************************************)
(* Properties of telegram_send                                             *)
(***************************************************************************)
\* the while loop of telegram_send has been left
SplitDone == pc \in {"tg_post", "tg_raised", "tg_done"}

\* the number of newlines s starts with
LeadingNewlines(s) == IF s # <<>> /\ Head(s).ch = "\n" THEN Head(s).n ELSE 0

RECURSIVE Rejoins(_, _)
\* s is the parts ps in their order, with nothing but newlines between a
\* part and the next
Rejoins(s, ps) ==
    IF Len(ps) = 1 THEN s = ps[1]
    ELSE LET rest    == SliceFrom(s, StrLen(ps[1]))
             removed == LeadingNewlines(rest) - LeadingNewlines(ps[2])
         IN  /\ SliceTo(s, StrLen(ps[1])) = ps[1]
             /\ removed >= 0
             /\ Rejoins(SliceFrom(rest, removed), Tail(ps))

RECURSIVE PartsLen(_)
\* the length of the parts together
PartsLen(ps) == IF ps = <<>> THEN 0 ELSE StrLen(Head(ps)) + PartsLen(Tail(ps))

\* C15: the splitting loop of telegram_send terminates on every text (each
\* turn takes at least 800 characters off what is left, and no step is ever
\* stuck before the function returns or raises); every part is at most 3800
\* long; every part before the last is non-empty; the parts are posted in
\* text order; and the parts, joined, are the text but for newlines removed
\* at the cuts.
C15_SplitTerminatesAndCoversText ==
    /\ pc = "tg_while" =>
          /\ StrLen(tg_t) + 800 * Len(tg_parts) <= StrLen(tg_text)
          /\ \A k \in 1..Len(tg_parts) : tg_parts[k] # <<>>
    /\ pc \in {"tg_done", "tg_raised"} \/ ENABLED NextTelegram
    /\ \A k \in 1..Len(tg_parts) : StrLen(tg_parts[k]) <= 3800
    /\ tg_sent = SubSeq(tg_parts, 1, Len(tg_sent))
    /\ SplitDone =>
          /\ \A k \in 1..Len(tg_parts) - 1 : tg_parts[k] # <<>>
          /\ Rejoins(tg_text, tg_parts)

\* a text sent in three parts, the first cut at MAX_LEN, with newlines
\* removed at a cut
C15_Witness ==
    /\ pc = "tg_done"
    /\ Len(tg_parts) = 3
    /\ tg_sent = tg_parts
    /\ StrLen(tg_parts[1]) = MAX_LEN
    /\ PartsLen(tg_parts) < StrLen(tg_text)

====
